---- MODULE Spec2Model ----
(***************************************************************************)
(* Model of streamlit_app.py (OpenFlow Data + Docs): the search-hit        *)
(* normalizer (run_search, _extract_hit), the local hit filter             *)
(* (filter_hits_locally), the agent response extractor (agent_answer) and  *)
(* one top-to-bottom run of the Streamlit script (tabs 1 to 3).            *)
(*                                                                         *)
(* Python values are records of one shape, [k, s, n]: k is the Python      *)
(* type, s the characters of a str (a sequence of one-character strings),  *)
(* n the value of a number or the size of a container.                     *)
(***************************************************************************)
EXTENDS Integers, Sequences, FiniteSets, TLC

VARIABLES
  f_rows, f_person, f_doc_type, f_from, f_to, f_out, f_done,
  s_resp, s_ret, s_done,
  a_resp, a_ret, a_done,
  pc, q, user_q, person_sel, dtype_sel, w_from, w_to, btn, calls, ui

vars == <<f_rows, f_person, f_doc_type, f_from, f_to, f_out, f_done,
          s_resp, s_ret, s_done, a_resp, a_ret, a_done,
          pc, q, user_q, person_sel, dtype_sel, w_from, w_to, btn, calls, ui>>

f_vars == <<f_rows, f_person, f_doc_type, f_from, f_to, f_out, f_done>>
s_vars == <<s_resp, s_ret, s_done>>
a_vars == <<a_resp, a_ret, a_done>>
app_vars == <<pc, q, user_q, person_sel, dtype_sel, w_from, w_to, btn, calls, ui>>

\* ------------------------------ bounds ----------------------------------
MaxHits == 2
MaxResults == 2
MaxTurns == 3

\* --------------------------- Python values ------------------------------
None == [k |-> "none", s |-> <<>>, n |-> 0]
Str(cs) == [k |-> "str", s |-> cs, n |-> 0]
Num(i) == [k |-> "num", s |-> <<>>, n |-> i]
List(size) == [k |-> "list", s |-> <<>>, n |-> size]
Dict(size) == [k |-> "dict", s |-> <<>>, n |-> size]
\* dict.get(key) on a missing key reads as None.
Missing == [k |-> "absent", s |-> <<>>, n |-> 0]

\* bool(v): None, "", 0 and empty containers are false.
Truthy(v) ==
  CASE v.k \in {"none", "absent"} -> FALSE
    [] v.k = "str"  -> v.s # <<>>
    [] v.k = "num"  -> v.n # 0
    [] OTHER        -> v.n > 0

\* a or b
Or(a, b) == IF Truthy(a) THEN a ELSE b

UpperChars == <<"A","B","C","D","E","F","G","H","I","J","K","L","M",
                "N","O","P","Q","R","S","T","U","V","W","X","Y","Z">>
LowerChars == <<"a","b","c","d","e","f","g","h","i","j","k","l","m",
                "n","o","p","q","r","s","t","u","v","w","x","y","z">>
DigitChars == <<"0","1","2","3","4","5","6","7","8","9">>

lower_char(c) ==
  IF \E i \in 1..26 : UpperChars[i] = c
    THEN LowerChars[CHOOSE i \in 1..26 : UpperChars[i] = c]
    ELSE c

\* str.lower()
lower_id(cs) == cs
lower(cs) == [i \in 1..Len(cs) |-> lower_char(cs[i])]

IsSpace(c) == c \in {" ", "\t", "\n"}

\* str.strip()
RECURSIVE lstrip(_)
lstrip(cs) == IF cs # <<>> /\ IsSpace(Head(cs)) THEN lstrip(Tail(cs)) ELSE cs
RECURSIVE rstrip(_)
rstrip(cs) ==
  IF cs # <<>> /\ IsSpace(cs[Len(cs)]) THEN rstrip(SubSeq(cs, 1, Len(cs) - 1)) ELSE cs
strip_id(cs) == cs
strip(cs) == rstrip(lstrip(cs))

\* ------------------------------ dates -----------------------------------
NoDate == [ok |-> FALSE, y |-> 0, m |-> 0, d |-> 0]
Date(y, m, d) == [ok |-> TRUE, y |-> y, m |-> m, d |-> d]

IsDigit(c) == \E i \in 1..10 : DigitChars[i] = c
DigitVal(c) == (CHOOSE i \in 1..10 : DigitChars[i] = c) - 1

IsLeap(y) == (y % 4 = 0) /\ ((y % 100 # 0) \/ (y % 400 = 0))
DaysInMonth(y, m) ==
  CASE m \in {4, 6, 9, 11} -> 30
    [] m = 2 -> IF IsLeap(y) THEN 29 ELSE 28
    [] OTHER -> 31

\* datetime.date.fromisoformat on a string of at most 10 characters:
\* YYYY-MM-DD, a real calendar day, year >= 1; anything else is ValueError
\* (NoDate here, because to_date turns the exception into None).
fromisoformat(cs) ==
  IF /\ Len(cs) = 10
     /\ \A i \in {1, 2, 3, 4, 6, 7, 9, 10} : IsDigit(cs[i])
     /\ cs[5] = "-" /\ cs[8] = "-"
  THEN LET y == 1000 * DigitVal(cs[1]) + 100 * DigitVal(cs[2])
                + 10 * DigitVal(cs[3]) + DigitVal(cs[4])
           m == 10 * DigitVal(cs[6]) + DigitVal(cs[7])
           d == 10 * DigitVal(cs[9]) + DigitVal(cs[10])
       IN IF y >= 1 /\ m \in 1..12 /\ d >= 1 /\ d <= DaysInMonth(y, m)
            THEN Date(y, m, d) ELSE NoDate
  ELSE NoDate

\* s[:10]
Take10(cs) == SubSeq(cs, 1, IF Len(cs) < 10 THEN Len(cs) ELSE 10)

\* to_date(s): None for a falsy s and for a parse error.
to_date_noslice(v) == IF ~Truthy(v) THEN NoDate ELSE fromisoformat(v.s)
to_date(v) == IF ~Truthy(v) THEN NoDate ELSE fromisoformat(Take10(v.s))

DateOrd(x) == x.y * 10000 + x.m * 100 + x.d
\* dd < d_from and dd > d_to on datetime.date
DateLT(a, b) == DateOrd(a) < DateOrd(b)

\* ------------------------------- hits -----------------------------------
Hit(id, fname, path, person, dtype, ddate, sem, txt) ==
  [DOC_ID |-> id, FILENAME |-> fname, RELATIVE_PATH |-> path, PERSON |-> person,
   DOC_TYPE |-> dtype, DOC_DATE |-> ddate, score_sem |-> sem, score_text |-> txt]

\* --------------------------- filter_hits_locally ------------------------
\* The body of the for loop: TRUE when no `continue` is taken and r is appended.
filter_keeps(r, person, doc_type, d_from, d_to) ==
  /\ ~(Truthy(person) /\ lower(Or(r.PERSON, Str(<<>>)).s) # lower(person.s))
  /\ ~(Truthy(doc_type) /\ lower(Or(r.DOC_TYPE, Str(<<>>)).s) # lower(doc_type.s))
  /\ (d_from.ok \/ d_to.ok) =>
        LET dd == to_date(r.DOC_DATE) IN
          /\ ~(d_from.ok /\ (~dd.ok \/ DateLT(dd, d_from)))
          /\ ~(d_to.ok /\ (~dd.ok \/ DateLT(d_to, dd)))

RECURSIVE filter_loop(_, _, _, _, _, _)
filter_loop(rows, out, person, doc_type, d_from, d_to) ==
  IF rows = <<>> THEN out
  ELSE filter_loop(Tail(rows),
                   IF filter_keeps(Head(rows), person, doc_type, d_from, d_to)
                     THEN Append(out, Head(rows)) ELSE out,
                   person, doc_type, d_from, d_to)

RECURSIVE filter_loop_prepend(_, _, _, _, _, _)
filter_loop_prepend(rows, out, person, doc_type, d_from, d_to) ==
  IF rows = <<>> THEN out
  ELSE filter_loop_prepend(Tail(rows),
                   IF filter_keeps(Head(rows), person, doc_type, d_from, d_to)
                     THEN <<Head(rows)>> \o out ELSE out,
                   person, doc_type, d_from, d_to)

filter_hits_prepend(rows, person, doc_type, d_from, d_to) ==
  filter_loop_prepend(rows, <<>>, person, doc_type, d_from, d_to)
filter_hits_locally(rows, person, doc_type, d_from, d_to) ==
  filter_loop(rows, <<>>, person, doc_type, d_from, d_to)

\* ------------------------- raw search payloads --------------------------
\* A JSON object read through .get(): a column that is missing and a column
\* that is null both read as None; n is the number of keys of the object.
NoFields == [DOC_ID |-> None, FILENAME |-> None, RELATIVE_PATH |-> None,
             PERSON |-> None, DOC_TYPE |-> None, DOC_DATE |-> None]
Fields(id, path, person, dtype, ddate) ==
  [DOC_ID |-> id, FILENAME |-> None, RELATIVE_PATH |-> path,
   PERSON |-> person, DOC_TYPE |-> dtype, DOC_DATE |-> ddate]

\* The value under "row", "@scores" or "scores": k = "absent" when the key is
\* missing, "dict" for an object, otherwise the type of a non-object value.
Sub(k, n, f, sem, txt) ==
  [k |-> k, n |-> n, f |-> f, cosine_similarity |-> sem, text_match |-> txt]
Absent == Sub("absent", 0, NoFields, None, None)
RowObj(n, f) == Sub("dict", n, f, None, None)
ScoresObj(n, sem, txt) == Sub("dict", n, NoFields, sem, txt)
Scalar(k, n) == Sub(k, n, NoFields, None, None)

\* dict.get(key): None for a missing key.
SubTruthy(x) ==
  CASE x.k \in {"absent", "none"} -> FALSE
    [] OTHER -> x.n > 0

\* One element of `results`.
Elem(k, n, f, row, atscores, scores) ==
  [k |-> k, n |-> n, f |-> f, row |-> row, atscores |-> atscores, scores |-> scores]
NonObj(k, n) == Elem(k, n, NoFields, Absent, Absent, Absent)

RaisedHit == [raised |-> TRUE, hit |-> Hit(None, None, None, None, None, None, None, None)]

\* _extract_hit(hit): hit.get on a non-dict, row.get on a truthy non-dict row
\* and scores.get on a truthy non-dict scores raise AttributeError.
extract_hit(hit) ==
  IF hit.k # "dict" THEN RaisedHit
  ELSE
    LET row == IF SubTruthy(hit.row) THEN hit.row
               ELSE IF hit.n > 0 THEN RowObj(hit.n, hit.f)
               ELSE RowObj(0, NoFields)
        scores == IF SubTruthy(hit.atscores) THEN hit.atscores
                  ELSE IF SubTruthy(hit.scores) THEN hit.scores
                  ELSE ScoresObj(0, None, None)
    IN IF row.k # "dict" \/ scores.k # "dict" THEN RaisedHit
       ELSE [raised |-> FALSE,
             hit |-> Hit(row.f.DOC_ID, row.f.FILENAME, row.f.RELATIVE_PATH, row.f.PERSON, row.f.DOC_TYPE,
                         row.f.DOC_DATE, scores.cosine_similarity, scores.text_match)]

\* The value under "results": k = "absent", "none", "list", "dict", "str" or
\* "num"; n its size or value; items the elements of a list.
Results(k, n, items) == [k |-> k, n |-> n, items |-> items]
NoResults == Results("absent", 0, <<>>)
ResultsList(items) == Results("list", Len(items), items)

\* The decoded payload: k its type, n its size or value.
Data(k, n, results) == [k |-> k, n |-> n, results |-> results]

\* r[0]["RESULT"]: a str holding JSON text (valid or not) or a decoded value.
Raw(isstr, valid, data) == [isstr |-> isstr, valid |-> valid, data |-> data]

\* session.sql(...).collect(): the adapter raises, returns no row, or one row.
Resp(k, raw) == [k |-> k, raw |-> raw]

Ok(hits) == [raised |-> FALSE, err |-> "", hits |-> hits]
Raise(err) == [raised |-> TRUE, err |-> err, hits |-> <<>>]

\* data = json.loads(raw) if isinstance(raw, str) else raw
search_decode_lenient(raw) ==
  IF raw.isstr /\ ~raw.valid THEN [raised |-> FALSE, data |-> Data("none", 0, NoResults)]
  ELSE [raised |-> FALSE, data |-> raw.data]
search_decode(raw) ==
  IF raw.isstr /\ ~raw.valid THEN [raised |-> TRUE, data |-> Data("none", 0, NoResults)]
  ELSE [raised |-> FALSE, data |-> raw.data]

DataTruthy(data) ==
  CASE data.k = "none" -> FALSE
    [] OTHER -> data.n # 0

\* results = (data or {}).get("results") or []
search_results(data) ==
  IF DataTruthy(data) /\ data.k # "dict" THEN [raised |-> TRUE, results |-> ResultsList(<<>>)]
  ELSE IF ~DataTruthy(data) THEN [raised |-> FALSE, results |-> ResultsList(<<>>)]
  ELSE IF data.results.k \in {"absent", "none"} \/ data.results.n = 0
         THEN [raised |-> FALSE, results |-> ResultsList(<<>>)]
  ELSE [raised |-> FALSE, results |-> data.results]

\* [_extract_hit(h) for h in results]: a number is not iterable (TypeError);
\* the keys of an object and the characters of a string are str elements,
\* on which _extract_hit raises.
RECURSIVE comprehension_loop(_, _)
comprehension_loop(items, out) ==
  IF items = <<>> THEN Ok(out)
  ELSE LET h == extract_hit(Head(items)) IN
       IF h.raised THEN Raise("AttributeError")
       ELSE comprehension_loop(Tail(items), Append(out, h.hit))

RECURSIVE comprehension_dedup_loop(_, _)
comprehension_dedup_loop(items, out) ==
  IF items = <<>> THEN Ok(out)
  ELSE LET h == extract_hit(Head(items)) IN
       IF h.raised THEN Raise("AttributeError")
       ELSE comprehension_dedup_loop(Tail(items),
              IF \E i \in 1..Len(out) : out[i].RELATIVE_PATH = h.hit.RELATIVE_PATH
                THEN out ELSE Append(out, h.hit))

search_comprehension_dedup(results) ==
  CASE results.k = "list" -> comprehension_dedup_loop(results.items, <<>>)
    [] results.k = "num" -> Raise("TypeError")
    [] OTHER -> IF results.n > 0 THEN Raise("AttributeError") ELSE Ok(<<>>)
search_comprehension(results) ==
  CASE results.k = "list" -> comprehension_loop(results.items, <<>>)
    [] results.k = "num" -> Raise("TypeError")
    [] OTHER -> IF results.n > 0 THEN Raise("AttributeError") ELSE Ok(<<>>)

\* run_search(query, limit, service_name), given what the session returns.
run_search(resp) ==
  IF resp.k = "fail" THEN Raise("QueryError")
  ELSE IF resp.k = "empty" THEN Ok(<<>>)
  ELSE LET dec == search_decode(resp.raw) IN
       IF dec.raised THEN Raise("JSONDecodeError")
       ELSE LET res == search_results(dec.data) IN
            IF res.raised THEN Raise("AttributeError")
            ELSE search_comprehension(res.results)

\* --------------------------- agent payloads -----------------------------
\* One element of `messages` / `output`: k its type, content what
\* m.get("content") reads when it is a dict.
Turn(k, content) == [k |-> k, content |-> content]

\* The value under "message".
Msg(k, content) == [k |-> k, content |-> content]
NoMsg == Msg("absent", Missing)

\* The value under "messages" or "output": k = "absent", "none", "list",
\* "str", ...; n its size or value; items the elements of a list.
TurnSeq(k, n, items) == [k |-> k, n |-> n, items |-> items]
NoSeq == TurnSeq("absent", 0, <<>>)
TurnList(items) == TurnSeq("list", Len(items), items)

\* The decoded agent payload: k its type, n its size or value, ser whether
\* json.dumps can serialize it.
AData(k, n, ser, message, messages, output) ==
  [k |-> k, n |-> n, ser |-> ser, message |-> message, messages |-> messages,
   output |-> output]
ANonObj(k, n, ser) == AData(k, n, ser, NoMsg, NoSeq, NoSeq)

ARaw(isstr, valid, data) == [isstr |-> isstr, valid |-> valid, data |-> data]
AResp(k, raw) == [k |-> k, raw |-> raw]

\* What agent_answer returns: type is the Python type of the returned value,
\* via the return statement taken, val the value (the text of the three
\* generated strings is one token).
Ret(type, via, val) == [type |-> type, via |-> via, val |-> val]
NoResultText == Str(<<"Agent returned no result.">>)
FailedText == Str(<<"Agent call failed: {e}">>)
DumpsText == Str(<<"json.dumps(data, indent=2)">>)

SeqTruthy(x) ==
  CASE x.k \in {"absent", "none"} -> FALSE
    [] OTHER -> x.n > 0

\* msgs = data.get("messages") or data.get("output") or []
candidate_by_presence(data) ==
  IF data.messages.k # "absent" THEN [src |-> "messages", v |-> data.messages]
  ELSE IF SeqTruthy(data.output) THEN [src |-> "output", v |-> data.output]
  ELSE [src |-> "default", v |-> TurnList(<<>>)]
candidate(data) ==
  IF SeqTruthy(data.messages) THEN [src |-> "messages", v |-> data.messages]
  ELSE IF SeqTruthy(data.output) THEN [src |-> "output", v |-> data.output]
  ELSE [src |-> "default", v |-> TurnList(<<>>)]

\* for m in reversed(msgs): if isinstance(m, dict) and m.get("content"): return
\* The index of the element returned, 0 when the loop ends without a return.
RECURSIVE scan_forward(_, _)
scan_forward(items, i) ==
  IF i > Len(items) THEN 0
  ELSE IF items[i].k = "dict" /\ Truthy(items[i].content) THEN i
  ELSE scan_forward(items, i + 1)
RECURSIVE scan_from(_, _)
scan_from(items, i) ==
  IF i = 0 THEN 0
  ELSE IF items[i].k = "dict" /\ Truthy(items[i].content) THEN i
  ELSE scan_from(items, i - 1)

scan_first(items) == scan_forward(items, 1)
scan_reversed(items) == scan_from(items, Len(items))

\* json.dumps(data, indent=2): TypeError on a value that is not serializable,
\* caught by the enclosing except.
dumps_fallback(data) ==
  IF data.ser THEN Ret("str", "dumps", DumpsText) ELSE Ret("str", "failed", FailedText)

\* The body of agent_answer after data = json.loads(obj) succeeded.
extract_answer(data) ==
  IF data.k = "dict"
  THEN IF data.message.k = "dict" /\ Truthy(data.message.content)
       THEN Ret(data.message.content.k, "message", data.message.content)
       ELSE LET msgs == candidate(data).v
                i == IF msgs.k = "list" THEN scan_reversed(msgs.items) ELSE 0
            IN IF i > 0 THEN Ret(msgs.items[i].content.k, "turn", msgs.items[i].content)
               ELSE dumps_fallback(data)
  ELSE dumps_fallback(data)

\* data = json.loads(obj) if isinstance(obj, str) else obj, inside the try.
agent_decode_fallthrough(raw) ==
  IF raw.isstr /\ ~raw.valid THEN Ret("str", "dumps", DumpsText)
  ELSE extract_answer(raw.data)
agent_decode(raw) ==
  IF raw.isstr /\ ~raw.valid THEN Ret("str", "failed", FailedText)
  ELSE extract_answer(raw.data)

\* agent_answer(prompt), given what the session returns.
agent_answer(resp) ==
  IF resp.k = "fail" THEN Ret("str", "failed", FailedText)
  ELSE IF resp.k = "empty" THEN Ret("str", "noresult", NoResultText)
  ELSE agent_decode(resp.raw)

\* ------------------------- sampled input values -------------------------
sAlice == Str(<<"A","l","i","c","e">>)
sALICE == Str(<<"A","L","I","C","E">>)
salice == Str(<<"a","l","i","c","e">>)
sAlic == Str(<<"A","l","i","c">>)
sBob == Str(<<"B","o","b">>)
sbob == Str(<<"b","o","b">>)
sEmpty == Str(<<>>)
sInvoice == Str(<<"I","n","v","o","i","c","e">>)
sINVOICE == Str(<<"I","N","V","O","I","C","E">>)
sinvoice == Str(<<"i","n","v","o","i","c","e">>)
sinvoices == Str(<<"i","n","v","o","i","c","e","s">>)
smemo == Str(<<"m","e","m","o">>)
sMEMO == Str(<<"M","E","M","O">>)
sPathA == Str(<<"a",".","p","d","f">>)
sPathB == Str(<<"b",".","p","d","f">>)
sFile == Str(<<"f",".","t","x","t">>)
sD_Jan15 == Str(<<"2","0","2","5","-","0","1","-","1","5">>)
sD_Jan15T == Str(<<"2","0","2","5","-","0","1","-","1","5","T","1","0",":","3","0",":","0","0">>)
sD_Feb30 == Str(<<"2","0","2","5","-","0","2","-","3","0">>)
sD_Leap == Str(<<"2","0","2","4","-","0","2","-","2","9">>)
sD_Slash == Str(<<"1","5","/","0","1","/","2","0","2","5">>)
sD_Mar01 == Str(<<"2","0","2","5","-","0","3","-","0","1">>)
sD_Short == Str(<<"2","0","2","5","-","1","-","5">>)

D_Leap == Date(2024, 2, 29)
D_Jan15 == Date(2025, 1, 15)
D_Feb28 == Date(2025, 2, 28)

SampleHits ==
  { Hit(Num(1), sFile, sPathA, sAlice, sInvoice, sD_Jan15, Num(9), Num(3)),
    Hit(Num(2), None, sPathA, sALICE, smemo, sD_Jan15T, None, None),
    Hit(None, None, None, None, None, None, None, None),
    Hit(Num(4), None, sPathB, sBob, sINVOICE, sD_Feb30, None, Num(1)),
    Hit(Num(5), None, None, sEmpty, sinvoice, sEmpty, None, None),
    Hit(Num(6), None, sPathB, salice, sinvoice, sD_Leap, None, None),
    Hit(Num(7), None, None, sBob, smemo, sD_Slash, None, None),
    Hit(Num(8), None, None, sAlic, sinvoices, sD_Mar01, None, None),
    Hit(Num(9), None, None, sbob, None, sD_Short, None, None) }

PersonCriteria == {None, sEmpty, salice, sALICE, sbob}
DocTypeCriteria == {None, sinvoice, sMEMO}
FromCriteria == {NoDate, D_Leap, D_Jan15}
ToCriteria == {NoDate, D_Jan15, D_Feb28}

\* All sequences over S of length at most n.
SeqsUpTo(S, n) == UNION {[1..k -> S] : k \in 0..n}

SampleElems ==
  { Elem("dict", 2, NoFields,
         RowObj(5, Fields(Num(1), sPathA, sAlice, sInvoice, sD_Jan15)),
         ScoresObj(2, Num(9), Num(3)), Absent),
    Elem("dict", 4, Fields(Num(2), sPathA, sBob, None, None),
         Absent, Absent, ScoresObj(1, None, Num(1))),
    Elem("dict", 0, NoFields, Absent, Absent, Absent),
    Elem("dict", 2, Fields(Num(3), None, None, smemo, None),
         RowObj(0, NoFields), Absent, Absent),
    Elem("dict", 3, Fields(Num(4), sPathB, None, None, sD_Feb30),
         Absent, ScoresObj(0, None, None), ScoresObj(1, Num(5), None)),
    Elem("dict", 1, NoFields, Scalar("str", 1), Absent, Absent),
    NonObj("num", 7),
    NonObj("none", 0) }

SampleResults ==
  { NoResults, Results("none", 0, <<>>), Results("dict", 0, <<>>),
    Results("dict", 1, <<>>), Results("str", 0, <<>>), Results("str", 2, <<>>),
    Results("num", 0, <<>>), Results("num", 5, <<>>) }
  \cup { ResultsList(items) : items \in SeqsUpTo(SampleElems, MaxResults) }

SampleData ==
  { Data("none", 0, NoResults), Data("num", 0, NoResults), Data("num", 5, NoResults),
    Data("str", 0, NoResults), Data("str", 3, NoResults),
    Data("list", 0, NoResults), Data("list", 1, NoResults),
    Data("dict", 0, NoResults) }
  \cup { Data("dict", 1, r) : r \in SampleResults }

SearchResps ==
  { Resp("fail", Raw(FALSE, TRUE, Data("none", 0, NoResults))),
    Resp("empty", Raw(FALSE, TRUE, Data("none", 0, NoResults))),
    Resp("row", Raw(TRUE, FALSE, Data("none", 0, NoResults))) }
  \cup { Resp("row", Raw(b, TRUE, d)) : b \in BOOLEAN, d \in SampleData }

sA == Str(<<"A">>)
sB == Str(<<"B">>)
sX == Str(<<"X">>)
sM == Str(<<"M">>)

SampleTurns ==
  { Turn("dict", sA), Turn("dict", sB), Turn("dict", sEmpty), Turn("dict", Missing),
    Turn("dict", Num(42)), Turn("str", Missing) }

SampleMessages ==
  { NoSeq, TurnSeq("none", 0, <<>>), TurnSeq("str", 3, <<>>) }
  \cup { TurnList(items) : items \in SeqsUpTo(SampleTurns, MaxTurns) }

SampleOutput ==
  { NoSeq, TurnList(<<>>), TurnList(<<Turn("dict", sX)>>),
    TurnList(<<Turn("dict", sEmpty)>>), TurnSeq("str", 3, <<>>) }

SampleMsg ==
  { NoMsg, Msg("str", Missing), Msg("dict", Missing), Msg("dict", sEmpty),
    Msg("dict", sM), Msg("dict", Num(42)), Msg("dict", List(1)) }

SampleAData ==
  { ANonObj("none", 0, TRUE), ANonObj("num", 5, TRUE), ANonObj("str", 3, TRUE),
    ANonObj("list", 2, TRUE), ANonObj("set", 2, FALSE) }
  \cup { AData("dict", 1, TRUE, m, ms, o) :
           m \in SampleMsg, ms \in SampleMessages, o \in SampleOutput }

AgentResps ==
  { AResp("fail", ARaw(FALSE, TRUE, ANonObj("none", 0, TRUE))),
    AResp("empty", ARaw(FALSE, TRUE, ANonObj("none", 0, TRUE))),
    AResp("row", ARaw(TRUE, FALSE, ANonObj("none", 0, TRUE))) }
  \cup { AResp("row", ARaw(b, TRUE, d)) : b \in BOOLEAN, d \in SampleAData }

\* ------------------- the functions applied to sampled inputs ------------
NoRet == Ret("str", "none", sEmpty)
NoSearchResp == Resp("empty", Raw(FALSE, TRUE, Data("none", 0, NoResults)))
NoAgentResp == AResp("empty", ARaw(FALSE, TRUE, ANonObj("none", 0, TRUE)))

FilterIdle ==
  /\ f_rows = <<>> /\ f_person = None /\ f_doc_type = None
  /\ f_from = NoDate /\ f_to = NoDate /\ f_out = <<>> /\ f_done = FALSE
SearchIdle == s_resp = NoSearchResp /\ s_ret = Ok(<<>>) /\ s_done = FALSE
AgentIdle == a_resp = NoAgentResp /\ a_ret = NoRet /\ a_done = FALSE
NoUi == [tab2 |-> "", hits |-> <<>>, tab3 |-> "", ans |-> NoRet, aborted |-> FALSE]
AppIdle ==
  /\ pc = "idle" /\ q = <<>> /\ user_q = <<>>
  /\ person_sel = Str(<<"(", "a", "n", "y", ")">>)
  /\ dtype_sel = Str(<<"(", "a", "n", "y", ")">>)
  /\ w_from = NoDate /\ w_to = NoDate /\ btn = "none" /\ calls = <<>> /\ ui = NoUi

InitFilter ==
  /\ f_rows \in SeqsUpTo(SampleHits, MaxHits)
  /\ f_person \in PersonCriteria
  /\ f_doc_type \in DocTypeCriteria
  /\ f_from \in FromCriteria
  /\ f_to \in ToCriteria
  /\ f_out = <<>>
  /\ f_done = FALSE
  /\ SearchIdle /\ AgentIdle /\ AppIdle

FilterCall ==
  /\ ~f_done
  /\ f_out' = filter_hits_locally(f_rows, f_person, f_doc_type, f_from, f_to)
  /\ f_done' = TRUE
  /\ UNCHANGED <<f_rows, f_person, f_doc_type, f_from, f_to>>
  /\ UNCHANGED <<s_vars, a_vars, app_vars>>

NextFilter == FilterCall
SpecFilter == InitFilter /\ [][NextFilter]_vars

InitSearch ==
  /\ s_resp \in SearchResps
  /\ s_ret = Ok(<<>>)
  /\ s_done = FALSE
  /\ FilterIdle /\ AgentIdle /\ AppIdle

SearchCall ==
  /\ ~s_done
  /\ s_ret' = run_search(s_resp)
  /\ s_done' = TRUE
  /\ UNCHANGED s_resp
  /\ UNCHANGED <<f_vars, a_vars, app_vars>>

NextSearch == SearchCall
SpecSearch == InitSearch /\ [][NextSearch]_vars

InitAgent ==
  /\ a_resp \in AgentResps
  /\ a_ret = NoRet
  /\ a_done = FALSE
  /\ FilterIdle /\ SearchIdle /\ AppIdle

AgentCall ==
  /\ ~a_done
  /\ a_ret' = agent_answer(a_resp)
  /\ a_done' = TRUE
  /\ UNCHANGED a_resp
  /\ UNCHANGED <<f_vars, s_vars, app_vars>>

NextAgent == AgentCall
SpecAgent == InitAgent /\ [][NextAgent]_vars

\* ------------------------ one run of the script ------------------------
sAny == Str(<<"(", "a", "n", "y", ")">>)

QueryTexts == {<<>>, <<" ", " ">>, <<"q">>, <<" ", "q", "\n">>}
QuestionTexts == {<<>>, <<"\t">>, <<"h", "i">>}
PersonOptions == {sAny, sAlice, sbob}
DocTypeOptions == {sAny, sinvoice}
DateInputs == {NoDate, D_Jan15}

AppSearchResps ==
  { Resp("fail", Raw(FALSE, TRUE, Data("none", 0, NoResults))),
    Resp("empty", Raw(FALSE, TRUE, Data("none", 0, NoResults))),
    Resp("row", Raw(TRUE, FALSE, Data("none", 0, NoResults))),
    Resp("row", Raw(TRUE, TRUE, Data("dict", 1, NoResults))),
    Resp("row", Raw(TRUE, TRUE, Data("dict", 1, ResultsList(<<NonObj("num", 7)>>)))),
    Resp("row", Raw(TRUE, TRUE, Data("dict", 1, ResultsList(
      << Elem("dict", 2, NoFields,
              RowObj(5, Fields(Num(1), sPathA, sAlice, sInvoice, sD_Jan15)),
              ScoresObj(2, Num(9), Num(3)), Absent),
         Elem("dict", 4, Fields(Num(2), sPathA, sBob, None, None),
              Absent, Absent, ScoresObj(1, None, Num(1))) >>)))) }

AppAgentResps ==
  { AResp("fail", ARaw(FALSE, TRUE, ANonObj("none", 0, TRUE))),
    AResp("empty", ARaw(FALSE, TRUE, ANonObj("none", 0, TRUE))),
    AResp("row", ARaw(TRUE, FALSE, ANonObj("none", 0, TRUE))),
    AResp("row", ARaw(TRUE, TRUE, AData("dict", 1, TRUE, Msg("dict", sM), NoSeq, NoSeq))),
    AResp("row", ARaw(TRUE, TRUE, AData("dict", 1, TRUE, NoMsg,
                      TurnList(<<Turn("dict", sA), Turn("dict", sEmpty)>>), NoSeq))) }

\* not q or not q.strip()
is_blank(text) == text = <<>> \/ strip(text) = <<>>

\* None if sel in (None, "", "(any)") else sel
normalize_sel(sel) == IF sel = sEmpty \/ sel = sAny THEN None ELSE sel

\* Streamlit reruns the whole script after a widget changes or a button is
\* clicked; a button reads True only in the run its click started.
StartRun(b) == pc' = "tab1" /\ btn' = b /\ calls' = <<>> /\ ui' = NoUi

Abort(issued) ==
  /\ calls' = calls \o issued
  /\ ui' = [ui EXCEPT !.aborted = TRUE]
  /\ pc' = "idle"

EditQuery ==
  /\ pc = "idle"
  /\ \E t \in QueryTexts : q' = t
  /\ StartRun("none")
  /\ UNCHANGED <<user_q, person_sel, dtype_sel, w_from, w_to>>
  /\ UNCHANGED <<f_vars, s_vars, a_vars>>

EditFilters ==
  /\ pc = "idle"
  /\ \E p \in PersonOptions, t \in DocTypeOptions, d1 \in DateInputs, d2 \in DateInputs :
       person_sel' = p /\ dtype_sel' = t /\ w_from' = d1 /\ w_to' = d2
  /\ StartRun("none")
  /\ UNCHANGED <<q, user_q>>
  /\ UNCHANGED <<f_vars, s_vars, a_vars>>

EditQuestion ==
  /\ pc = "idle"
  /\ \E t \in QuestionTexts : user_q' = t
  /\ StartRun("none")
  /\ UNCHANGED <<q, person_sel, dtype_sel, w_from, w_to>>
  /\ UNCHANGED <<f_vars, s_vars, a_vars>>

ClickSearch ==
  /\ pc = "idle"
  /\ StartRun("search")
  /\ UNCHANGED <<q, user_q, person_sel, dtype_sel, w_from, w_to>>
  /\ UNCHANGED <<f_vars, s_vars, a_vars>>

ClickAsk ==
  /\ pc = "idle"
  /\ StartRun("ask")
  /\ UNCHANGED <<q, user_q, person_sel, dtype_sel, w_from, w_to>>
  /\ UNCHANGED <<f_vars, s_vars, a_vars>>

\* with tab1: the table listing, then the preview of the picked table. An
\* exception of sql_to_df is not caught and ends the run.
Tab1 ==
  /\ pc = "tab1"
  /\ \E tables \in {"fail", "empty", "some"}, preview_ok \in BOOLEAN :
       CASE tables = "fail" -> Abort(<<"TABLES">>)
         [] tables = "empty" ->
              calls' = Append(calls, "TABLES") /\ pc' = "tab2" /\ UNCHANGED ui
         [] OTHER ->
              IF preview_ok
                THEN calls' = calls \o <<"TABLES", "PREVIEW">> /\ pc' = "tab2" /\ UNCHANGED ui
                ELSE Abort(<<"TABLES", "PREVIEW">>)
  /\ UNCHANGED <<q, user_q, person_sel, dtype_sel, w_from, w_to, btn>>
  /\ UNCHANGED <<f_vars, s_vars, a_vars>>

\* with tab2: the two option-list queries, then the Search button.
Tab2 ==
  /\ pc = "tab2"
  /\ \E opts \in {"fail_persons", "fail_doctypes", "ok"}, resp \in AppSearchResps :
       CASE opts = "fail_persons" -> Abort(<<"PERSONS">>)
         [] opts = "fail_doctypes" -> Abort(<<"PERSONS", "DOCTYPES">>)
         [] OTHER ->
              /\ pc' = "tab3"
              /\ IF btn # "search"
                   THEN calls' = calls \o <<"PERSONS", "DOCTYPES">> /\ UNCHANGED ui
                 ELSE IF is_blank(q)
                   THEN /\ calls' = calls \o <<"PERSONS", "DOCTYPES">>
                        /\ ui' = [ui EXCEPT !.tab2 = <<"warning">>]
                 ELSE LET rows == run_search(resp)
                          out == filter_hits_locally(rows.hits, normalize_sel(person_sel),
                                                     normalize_sel(dtype_sel), w_from, w_to)
                      IN /\ calls' = calls \o <<"PERSONS", "DOCTYPES", "SEARCH_PREVIEW">>
                         /\ ui' = IF rows.raised
                                    THEN [ui EXCEPT !.tab2 = <<"error", "info">>]
                                  ELSE IF out = <<>>
                                    THEN [ui EXCEPT !.tab2 = <<"info">>]
                                  ELSE [ui EXCEPT !.tab2 = <<"dataframe">>, !.hits = out]
  /\ UNCHANGED <<q, user_q, person_sel, dtype_sel, w_from, w_to, btn>>
  /\ UNCHANGED <<f_vars, s_vars, a_vars>>

\* with tab3: the Ask Agent button.
Tab3 ==
  /\ pc = "tab3"
  /\ pc' = "idle"
  /\ IF btn # "ask" THEN UNCHANGED <<calls, ui>>
     ELSE IF is_blank(user_q)
       THEN UNCHANGED calls /\ ui' = [ui EXCEPT !.tab3 = "warning"]
     ELSE \E resp \in AppAgentResps :
            /\ calls' = Append(calls, "EXECUTE_AGENT")
            /\ ui' = [ui EXCEPT !.tab3 = "write", !.ans = agent_answer(resp)]
  /\ UNCHANGED <<q, user_q, person_sel, dtype_sel, w_from, w_to, btn>>
  /\ UNCHANGED <<f_vars, s_vars, a_vars>>

Init == AppIdle /\ FilterIdle /\ SearchIdle /\ AgentIdle

Next ==
  \/ EditQuery
  \/ EditFilters
  \/ EditQuestion
  \/ ClickSearch
  \/ ClickAsk
  \/ Tab1
  \/ Tab2
  \/ Tab3

Spec == Init /\ [][Next]_vars

\* ------------------------------ properties ------------------------------
Range(sq) == {sq[i] : i \in 1..Len(sq)}

\* out is in by deleting elements: some strictly increasing choice of
\* positions of in spells out.
IsSubsequence(out, in) ==
  \E pos \in [1..Len(out) -> 1..Len(in)] :
    /\ \A i \in 1..Len(out) : out[i] = in[pos[i]]
    /\ \A i, j \in 1..Len(out) : i < j => pos[i] < pos[j]

NoCriteria ==
  f_person = None /\ f_doc_type = None /\ f_from = NoDate /\ f_to = NoDate

\* C1: the result of filter_hits_locally is an order-preserving subsequence
\* of its input (elements taken from the input, in input order, none repeated
\* or changed), and with all four criteria None it is the input itself.
C1_FilterSubsequence ==
  f_done => /\ IsSubsequence(f_out, f_rows)
            /\ NoCriteria => f_out = f_rows

C1_Witness ==
  /\ f_done /\ Len(f_rows) = 2 /\ f_rows[1] # f_rows[2]
  /\ f_person = salice /\ f_out = <<f_rows[2]>>

\* The calendar date the first 10 characters of each sampled DOC_DATE denote,
\* written out by hand (NoDate: absent, empty, or not an ISO date).
IsoDateOf(v) ==
  CASE v = sD_Jan15 -> Date(2025, 1, 15)
    [] v = sD_Jan15T -> Date(2025, 1, 15)
    [] v = sD_Leap -> Date(2024, 2, 29)
    [] v = sD_Mar01 -> Date(2025, 3, 1)
    [] OTHER -> NoDate

\* a <= b on calendar dates, field by field.
DateLE(a, b) ==
  \/ a.y < b.y
  \/ a.y = b.y /\ a.m < b.m
  \/ a.y = b.y /\ a.m = b.m /\ a.d <= b.d

PersonInactive == ~Truthy(f_person)
DocTypeInactive == ~Truthy(f_doc_type)
DateInactive == ~f_from.ok /\ ~f_to.ok

\* C2: a hit whose DOC_DATE is absent, empty or not an ISO date in its first
\* 10 characters is dropped whenever d_from or d_to is active; with both
\* bounds inactive no hit is dropped for its date; a hit with a parsable date
\* passes the date criterion iff d_from <= date and date <= d_to for each
\* active bound, the bounds included.
C2_DateCriterion ==
  f_done =>
    \A i \in 1..Len(f_rows) :
      LET r == f_rows[i]
          dd == IsoDateOf(r.DOC_DATE)
      IN /\ (~dd.ok /\ ~DateInactive) => r \notin Range(f_out)
         /\ (DateInactive /\ PersonInactive /\ DocTypeInactive) => r \in Range(f_out)
         /\ (dd.ok /\ PersonInactive /\ DocTypeInactive) =>
              (r \in Range(f_out) <=>
                 /\ f_from.ok => DateLE(f_from, dd)
                 /\ f_to.ok => DateLE(dd, f_to))

C2_Witness ==
  /\ f_done /\ Len(f_rows) = 2
  /\ f_rows[1].DOC_DATE = sD_Feb30 /\ f_rows[2].DOC_DATE = sD_Jan15T
  /\ f_from = D_Jan15 /\ f_to = D_Jan15 /\ PersonInactive /\ DocTypeInactive
  /\ f_out = <<f_rows[2]>>

\* Two strings are equal up to the case of their letters.
EqIgnoreCase(a, b) ==
  /\ Len(a) = Len(b)
  /\ \A i \in 1..Len(a) :
       \/ a[i] = b[i]
       \/ \E j \in 1..26 : {a[i], b[i]} = {UpperChars[j], LowerChars[j]}

\* C3: with the person criterion active a hit passes it iff its PERSON is
\* present and equals the criterion up to letter case; the doc_type criterion
\* does the same against DOC_TYPE.
C3_CaseInsensitiveMatch ==
  f_done =>
    \A i \in 1..Len(f_rows) :
      LET r == f_rows[i] IN
        /\ (~PersonInactive /\ DocTypeInactive /\ DateInactive) =>
             (r \in Range(f_out) <=>
                r.PERSON.k = "str" /\ EqIgnoreCase(r.PERSON.s, f_person.s))
        /\ (~DocTypeInactive /\ PersonInactive /\ DateInactive) =>
             (r \in Range(f_out) <=>
                r.DOC_TYPE.k = "str" /\ EqIgnoreCase(r.DOC_TYPE.s, f_doc_type.s))

C3_Witness ==
  /\ f_done /\ Len(f_rows) = 2
  /\ f_rows[1].PERSON = None /\ f_rows[2].PERSON = sAlice
  /\ f_person = sALICE /\ DocTypeInactive /\ DateInactive
  /\ f_out = <<f_rows[2]>>

\* The shape of the payload run_search received.
S_Invalid == s_resp.raw.isstr /\ ~s_resp.raw.valid
S_Data == s_resp.raw.data
S_Items == S_Data.results.items
S_ResultsFalsy == S_Data.results.k \in {"absent", "none"} \/ S_Data.results.n = 0
S_ResultsIsList == S_Data.k = "dict" /\ S_Data.results.k = "list"

\* An element as the data model describes it: an object whose `row`,
\* `@scores` and `scores`, where present, are objects.
RegularElem(e) ==
  /\ e.k = "dict"
  /\ e.row.k \in {"absent", "dict"}
  /\ e.atscores.k \in {"absent", "dict"}
  /\ e.scores.k \in {"absent", "dict"}

\* The payload has one of the shapes the normalizer is said to absorb.
S_Malformed ==
  \/ S_Invalid
  \/ ~S_Invalid /\ S_Data.k # "dict"
  \/ ~S_Invalid /\ S_Data.k = "dict" /\ S_Data.results.k # "list"
  \/ ~S_Invalid /\ S_ResultsIsList /\ \E i \in 1..Len(S_Items) : S_Items[i].k # "dict"

A_Invalid == a_resp.raw.isstr /\ ~a_resp.raw.valid
A_Data == a_resp.raw.data
A_Decoded == a_done /\ a_resp.k = "row" /\ ~A_Invalid

\* A content that is not empty: a non-empty string or container, a number.
NonEmptyContent(c) ==
  CASE c.k = "str" -> c.s # <<>>
    [] c.k \in {"list", "dict"} -> c.n > 0
    [] c.k = "num" -> TRUE
    [] OTHER -> FALSE
HasContent(t) == t.k = "dict" /\ NonEmptyContent(t.content)

\* `message` is an object with non-empty content.
UsableMessage == A_Data.message.k = "dict" /\ NonEmptyContent(A_Data.message.content)

\* The highest index of an element with non-empty content, 0 if there is none.
LastWithContent(items) ==
  IF \E i \in 1..Len(items) : HasContent(items[i])
    THEN CHOOSE i \in 1..Len(items) :
           HasContent(items[i]) /\ \A j \in (i + 1)..Len(items) : ~HasContent(items[j])
    ELSE 0

\* What the scan of one candidate field alone yields.
AnswerFrom(sq) ==
  IF sq.k = "list" /\ LastWithContent(sq.items) > 0
    THEN a_ret.via = "turn" /\ a_ret.val = sq.items[LastWithContent(sq.items)].content
    ELSE a_ret.via \in {"dumps", "failed"}

\* C4: agent_answer returns a value of type str for every outcome of the
\* agent call and every payload shape (it has no path that raises).
C4_AlwaysString == a_done => a_ret.type = "str"

\* C7: with no usable message.content and a list as candidate turn sequence
\* (messages if present, else output), agent_answer returns the content of
\* the highest-index element whose content is non-empty.
C7_ReverseScan ==
  (A_Decoded /\ A_Data.k = "dict" /\ ~UsableMessage) =>
    LET cand == IF A_Data.messages.k # "absent" THEN A_Data.messages ELSE A_Data.output
    IN (cand.k = "list" /\ LastWithContent(cand.items) > 0) =>
         /\ a_ret.via = "turn"
         /\ a_ret.val = cand.items[LastWithContent(cand.items)].content

C7_Witness ==
  /\ A_Decoded /\ A_Data.k = "dict" /\ A_Data.message.k = "absent"
  /\ A_Data.messages = TurnList(<<Turn("dict", sA), Turn("dict", sEmpty), Turn("dict", sB)>>)
  /\ a_ret.val = sB

\* C9 as stated: a string payload that is not valid JSON yields the rule-6
\* serialized fallback.
C9_Original ==
  (a_done /\ a_resp.k = "row" /\ A_Invalid) => a_ret.via = "dumps"

\* C9 amended: a string payload that is not valid JSON yields the text
\* "Agent call failed: <error>" of the except clause, the outcome of a failed
\* agent call, not the serialized fallback.
C9_DecodeFailureReported ==
  (a_done /\ a_resp.k = "row" /\ A_Invalid) =>
    a_ret = Ret("str", "failed", FailedText)

C9_Witness ==
  a_done /\ a_resp.k = "row" /\ A_Invalid /\ a_ret.via = "failed"

\* C10 as stated: whenever the decoded object has a `messages` field, that
\* field alone decides the result and `output` is not consulted.
C10_Original ==
  (A_Decoded /\ A_Data.k = "dict" /\ ~UsableMessage /\ A_Data.messages.k # "absent") =>
    AnswerFrom(A_Data.messages)

\* C10 amended: the candidate is chosen by truthiness: a `messages` field
\* that is truthy (non-empty) alone decides the result, even when it holds no
\* non-empty content; `output` is used when `messages` is absent, null or empty.
C10_CandidateByTruthiness ==
  (A_Decoded /\ A_Data.k = "dict" /\ ~UsableMessage) =>
    IF A_Data.messages.k \notin {"absent", "none"} /\ A_Data.messages.n > 0
      THEN AnswerFrom(A_Data.messages)
      ELSE AnswerFrom(A_Data.output)

C10_Witness ==
  /\ A_Decoded /\ A_Data.k = "dict" /\ ~UsableMessage
  /\ A_Data.messages = TurnList(<<>>)
  /\ A_Data.output = TurnList(<<Turn("dict", sX)>>)
  /\ a_ret.val = sX

\* Every character of the text is white space (the empty text included).
AllSpace(text) == \A i \in 1..Len(text) : text[i] \in {" ", "\t", "\n"}

SearchRejected == btn = "search" /\ AllSpace(q)
AskRejected == btn = "ask" /\ AllSpace(user_q)

\* C8 as stated: the run that handles Search with a blank query, or Ask
\* Agent with a blank question, issues no call to the warehouse, the search
\* service or the agent.
C8_Original ==
  (pc = "idle" /\ ~ui.aborted /\ (SearchRejected \/ AskRejected)) => calls = <<>>

\* C8 amended: the run that handles Search with a blank query, or Ask Agent
\* with a blank question, shows the inline warning and issues no search
\* (SEARCH_PREVIEW) and no agent (EXECUTE_AGENT) call; the warehouse queries
\* of the script itself (table listing and preview, person and doc-type
\* option lists) are still issued in that run.
C8_NoSearchOrAgentCall ==
  /\ (SearchRejected \/ AskRejected) =>
       "SEARCH_PREVIEW" \notin Range(calls) /\ "EXECUTE_AGENT" \notin Range(calls)
  /\ (pc = "idle" /\ ~ui.aborted /\ SearchRejected) =>
       /\ ui.tab2 = <<"warning">>
       /\ {"TABLES", "PERSONS", "DOCTYPES"} \subseteq Range(calls)
  /\ (pc = "idle" /\ ~ui.aborted /\ AskRejected) =>
       /\ ui.tab3 = "warning"
       /\ {"TABLES", "PERSONS", "DOCTYPES"} \subseteq Range(calls)

C8_Witness ==
  /\ pc = "idle" /\ ~ui.aborted /\ btn = "search" /\ q = <<" ", " ">>
  /\ ui.tab2 = <<"warning">> /\ calls = <<"TABLES", "PREVIEW", "PERSONS", "DOCTYPES">>

====
